---- MODULE Spec2Model ----
(***************************************************************************)
(* FRUITELL trainer (src/fruitell_train.py): the capture session.          *)
(*                                                                         *)
(* capture_mode runs three threads over one serial connection:             *)
(*   - reader():          writes TRAIN:ON, reads device lines, parses them *)
(*                        and puts the records on qrecs;                   *)
(*   - start_key_reader.run(): puts lower-cased key presses on keyq;       *)
(*   - the main (consumer) loop: takes one record (rec_current slot), one  *)
(*     key, labels, and on 'q' tears the session down and saves the rows.  *)
(*                                                                         *)
(* Of each time stamp the program reads one comparison only,               *)
(* (time.time() - last_tx) > 1.5 and (time.time() - last_seen) > 2.0, and  *)
(* the model keeps that: a stamp is fresh when it is set and becomes old   *)
(* when its timeout passes.  Numeric text is modelled by integers; the     *)
(* readings are chosen so that the float arithmetic of the confidence      *)
(* proxy is exact.                                                         *)
(*                                                                         *)
(* The functions called outside the session (open_port_with_retries, the   *)
(* two line parsers, scale_echo, train_from_csv with emit_W_line) have a   *)
(* specification each, SpecOpen, SpecParse, SpecScale and SpecTrain, over  *)
(* the variable call; SpecHeard is the session with the lines read kept.   *)
(***************************************************************************)
EXTENDS Integers, Sequences, FiniteSets, TLC

\* ---------------------------------------------------------------- bounds
MaxLines == 2
MaxKeys == 2
MaxNudges == 1

\* ------------------------------------------------------- program constants
\* len(parts) < 7
CsvMinFields == 7
\* 120.0*2 in the confidence proxy
MadFull == 120 * 2

None == [none |-> TRUE]

\* ------------------------------------------------------------ device lines
\* One comma-separated part, or one regex capture: numeric text or not.
Num(v) == [ok |-> TRUE, v |-> v]
Bad == [ok |-> FALSE, v |-> 0]

EmptyLine == [fmt |-> "empty"]
NoiseLine == [fmt |-> "noise"]
CsvLine(parts) == [fmt |-> "csv", parts |-> parts]
HumanLine(fresh, conf, echo, mad, F, S) ==
    [fmt |-> "human", fresh |-> fresh, conf |-> conf, echo |-> echo,
     mad |-> mad, F |-> F, S |-> S]

\* The readings the device reports: dispersion, confidence and anchors.
\* A trained device reports its confidence (40 here, where the proxy would
\* be 100); an untrained one reports 0, and the proxy is 50 or, clamped, 0.
ReportedReading == [mad |-> 0, conf |-> 40, fa |-> 1400, sa |-> 2600]
ProxyReading == [mad |-> 120, conf |-> 0, fa |-> 1400, sa |-> 2600]
NoisyReading == [mad |-> 300, conf |-> 0, fa |-> 2600, sa |-> 1400]

Readings == << ReportedReading, ProxyReading, NoisyReading >>

\* The i-th line carries one of two readings, in turn through the three.
ReadingAt(i, k) == Readings[((i + k) % Len(Readings)) + 1]

\* The echo of the i-th line: later lines carry larger echoes, so that a
\* sample names the line it came from.
EchoAt(i) == 1000 + 100 * i

StructuredLine(i, r) ==
    CsvLine(<< Num(i), Num(EchoAt(i)), Num(r.mad), Num(0), Num(r.conf),
               Num(r.fa), Num(r.sa) >>)

ReadableLine(i, r) ==
    HumanLine(Num(0), Num(r.conf), Num(EchoAt(i)), Num(r.mad),
              Num(r.fa), Num(r.sa))

\* A structured line with one part more, or with its last part cut off.
WithPart(line, part) == CsvLine(Append(line.parts, part))
CutShort(line) == CsvLine(SubSeq(line.parts, 1, Len(line.parts) - 1))
\* A structured line whose k-th part is no number.
Garbled(line, k) == CsvLine([line.parts EXCEPT ![k] = Bad])

\* The non-empty lines the device may send as its i-th line: a structured
\* line, the same with an eighth part, with six parts, with a part that is
\* no number, a human-readable line, one with a capture that is no number,
\* and noise.
LinesAt(i) ==
    { StructuredLine(i, ReadingAt(i, 0)),
      WithPart(StructuredLine(i, ReadingAt(i, 0)), Num(7)),
      CutShort(StructuredLine(i, ReadingAt(i, 0))),
      Garbled(StructuredLine(i, ReadingAt(i, 0)), 2),
      ReadableLine(i, ReadingAt(i, 1)),
      [ReadableLine(i, ReadingAt(i, 1)) EXCEPT !.conf = Bad],
      NoiseLine }

\* ---------------------------------------------------------------- parsing
\* Mutant: every part must be a number, those after the seventh too.
parse_device_csv_line_AllParts(line) ==
    IF line.fmt # "csv" THEN None
    ELSE IF Len(line.parts) < CsvMinFields THEN None
    ELSE IF \E i \in 1..Len(line.parts) : ~line.parts[i].ok THEN None
    ELSE [ts_ms |-> line.parts[1].v,
          echo_us |-> line.parts[2].v,
          mad_us |-> line.parts[3].v,
          fresh_pct |-> line.parts[4].v,
          conf_pct |-> line.parts[5].v,
          fresh_anchor |-> line.parts[6].v,
          spoil_anchor |-> line.parts[7].v]

parse_device_csv_line(line) ==
    IF line.fmt # "csv" THEN None
    ELSE IF Len(line.parts) < CsvMinFields THEN None
    ELSE IF \E i \in 1..CsvMinFields : ~line.parts[i].ok THEN None
    ELSE [ts_ms |-> line.parts[1].v,
          echo_us |-> line.parts[2].v,
          mad_us |-> line.parts[3].v,
          fresh_pct |-> line.parts[4].v,
          conf_pct |-> line.parts[5].v,
          fresh_anchor |-> line.parts[6].v,
          spoil_anchor |-> line.parts[7].v]

\* ts_ms is the host's clock at the parse, which the model does not keep
\* (0 stands for it); the program never reads ts_ms again.
parse_human_line(line) ==
    IF line.fmt # "human" THEN None
    ELSE IF ~(line.echo.ok /\ line.mad.ok /\ line.fresh.ok /\ line.conf.ok
              /\ line.F.ok /\ line.S.ok) THEN None
    ELSE [ts_ms |-> 0,
          echo_us |-> line.echo.v,
          mad_us |-> line.mad.v,
          fresh_pct |-> line.fresh.v,
          conf_pct |-> line.conf.v,
          fresh_anchor |-> line.F.v,
          spoil_anchor |-> line.S.v]

\* Mutant: the human-readable format is not tried.
ParseLine_NoFallback(line) == parse_device_csv_line(line)

\* rec = parse_device_csv_line(raw) or parse_human_line(raw)
ParseLine(line) ==
    IF parse_device_csv_line(line) # None THEN parse_device_csv_line(line)
    ELSE parse_human_line(line)

\* ------------------------------------------------------------- confidence
Max0(x) == IF x > 0 THEN x ELSE 0

\* conf, times MadFull: conf_pct if positive, else the proxy
\* max(0, (1 - mad/240) * 100).
ConfScaled(r) ==
    IF r.conf_pct > 0 THEN r.conf_pct * MadFull
    ELSE Max0((MadFull - r.mad_us) * 100)

\* Mutant: conf > args.min_conf
Qualifies_Strict(r, mc) == ConfScaled(r) > mc * MadFull

\* conf >= args.min_conf
Qualifies(r, mc) == ConfScaled(r) >= mc * MadFull

\* ------------------------------------------------------------------- keys
KeyPresses == {"f", "s", "q", "F"}

\* ch.lower()
Lower(ch) == IF ch = "F" THEN "f" ELSE ch

Sample(r, lab) ==
    [echo_us |-> r.echo_us, label |-> lab,
     fresh_anchor |-> r.fresh_anchor, spoil_anchor |-> r.spoil_anchor]

\* --min-conf: 0 takes every reading; 50 is the proxy of ProxyReading exactly
MinConfs == {0, 50}

VARIABLES
    min_conf,     \* args.min_conf
    link,         \* the serial link: "up" or "lost" (hard connection loss)
    ser_open,     \* the connection is open
    tx,           \* every write attempted on the connection, in order
    nlines,       \* non-empty lines the device has delivered
    nkeys,        \* keys the operator has pressed
    reader_pc, got_any,
    last_tx_old,  \* (time.time() - last_tx) > 1.5
    qrecs, keyq,
    main_pc, rows, rec, rec_current, saved,
    last_seen_old, \* (time.time() - last_seen) > 2.0
    saves,        \* the row lists handed to save_csv, in order
    consumed,     \* history: the records taken from qrecs, in order
    enqueued,     \* history: the records put on qrecs, in order
    keyed,        \* history: the 'f' and 's' keys taken from keyq
    heard,        \* history: the non-empty lines read (kept where a
                  \* specification follows the lines; << >> elsewhere)
    call          \* the call of a function outside the capture session

vars == << min_conf, link, ser_open, tx, nlines, nkeys,
           reader_pc, got_any, last_tx_old, qrecs, keyq,
           main_pc, rows, rec, rec_current, saved, last_seen_old,
           saves, consumed, enqueued, keyed, heard, call >>

envVars == << min_conf, link, nlines, nkeys, heard, call >>
readerVars == << reader_pc, got_any, last_tx_old, enqueued >>
mainVars == << main_pc, rows, rec, rec_current, saved, last_seen_old,
               saves, consumed, keyed >>

\* The state capture_mode builds before its loop; last_tx = 0.0 and
\* last_seen = 0.0 are long past.
InitSession ==
    /\ link = "up"
    /\ ser_open = TRUE
    /\ tx = << >>
    /\ nlines = 0
    /\ nkeys = 0
    /\ reader_pc = "start"
    /\ got_any = FALSE
    /\ last_tx_old = TRUE
    /\ qrecs = << >>
    /\ keyq = << >>
    /\ main_pc = "get_rec"
    /\ rows = << >>
    /\ last_seen_old = TRUE
    /\ rec = None
    /\ rec_current = None
    /\ saved = 0
    /\ saves = << >>
    /\ consumed = << >>
    /\ enqueued = << >>
    /\ keyed = 0
    /\ heard = << >>

\* No function outside the capture session is being called.
NoCall == [fn |-> "none"]

Init ==
    /\ min_conf \in MinConfs
    /\ InitSession
    /\ call = NoCall

\* capture_mode has returned or raised: the process exits and takes the
\* daemon threads with it.
Exited == main_pc \in {"done", "raised"}

\* A read or a write on the connection raises.
SerialFails == link = "lost" \/ ~ser_open

Write(cmd, by, ok) == [cmd |-> cmd, by |-> by, ok |-> ok]

\* The TRAIN:ON writes the reader has attempted.
ReaderWrites == Cardinality({i \in 1..Len(tx) : tx[i].by = "reader"})

\* ------------------------------------------------------------ environment
\* More than 1.5 s have passed since last_tx.
TxTimeout ==
    /\ ~Exited
    /\ ~last_tx_old
    /\ last_tx_old' = TRUE
    /\ UNCHANGED << envVars, ser_open, tx, reader_pc, got_any, enqueued,
                    qrecs, keyq, mainVars >>

\* More than 2.0 s have passed since last_seen.
SeenTimeout ==
    /\ ~Exited
    /\ ~last_seen_old
    /\ last_seen_old' = TRUE
    /\ UNCHANGED << envVars, ser_open, tx, readerVars, qrecs, keyq,
                    main_pc, rows, rec, rec_current, saved, saves,
                    consumed, keyed >>

\* The cable is pulled: from now on reads and writes raise.
LoseLink ==
    /\ ~Exited
    /\ link = "up"
    /\ link' = "lost"
    /\ UNCHANGED << min_conf, ser_open, tx, nlines, nkeys, heard, call,
                    readerVars, qrecs, keyq, mainVars >>

\* --------------------------------------------------------- reader() thread
\* ser.write(b"TRAIN:ON\n"); last_tx = time.time()
\* An exception ends the thread silently (except Exception: pass).
ReaderStart ==
    /\ ~Exited
    /\ reader_pc = "start"
    /\ IF SerialFails
         THEN /\ reader_pc' = "dead"
              /\ tx' = Append(tx, Write("TRAIN:ON", "reader", FALSE))
              /\ UNCHANGED last_tx_old
         ELSE /\ reader_pc' = "loop"
              /\ tx' = Append(tx, Write("TRAIN:ON", "reader", TRUE))
              /\ last_tx_old' = FALSE
    /\ UNCHANGED << envVars, ser_open, got_any, enqueued, qrecs, keyq,
                    mainVars >>

\* Mutant: put() at the head of the queue.
Put_Front(q, x) == << x >> \o q

\* queue.Queue.put: first in, first out
Put(q, x) == Append(q, x)

\* Mutant: the nudge forgets got_any.
NudgeDue_IgnoresGotAny(raw, ga, old) == raw = EmptyLine /\ old

\* if not raw and not got_any and (time.time() - last_tx) > 1.5
NudgeDue(raw, ga, old) ==
    raw = EmptyLine /\ ~ga /\ old

\* if not raw: continue; got_any = True
GotAnyAfter(raw, ga) == IF raw = EmptyLine THEN ga ELSE TRUE

\* One pass of the read loop up to the nudge: raw is what readline() returned
\* after decode and strip (EmptyLine on a timeout).
ReaderLoop(raw) ==
    /\ ~Exited
    /\ reader_pc = "loop"
    /\ IF SerialFails
         THEN /\ reader_pc' = "dead"
              /\ UNCHANGED << nlines, got_any, qrecs, enqueued >>
         ELSE IF NudgeDue(raw, got_any, last_tx_old)
         THEN /\ ReaderWrites <= MaxNudges
              /\ reader_pc' = "nudge"
              /\ UNCHANGED << nlines, got_any, qrecs, enqueued >>
         ELSE /\ got_any' = GotAnyAfter(raw, got_any)
              /\ nlines' = IF raw = EmptyLine THEN nlines ELSE nlines + 1
              /\ qrecs' = IF raw # EmptyLine /\ ParseLine(raw) # None
                            THEN Put(qrecs, ParseLine(raw))
                            ELSE qrecs
              /\ enqueued' = IF raw # EmptyLine /\ ParseLine(raw) # None
                               THEN Append(enqueued, ParseLine(raw))
                               ELSE enqueued
              /\ UNCHANGED reader_pc
    /\ UNCHANGED << min_conf, link, nkeys, call, ser_open, tx, last_tx_old,
                    keyq, mainVars >>

\* ser.write(b"TRAIN:ON\n"); last_tx = time.time(); continue
ReaderNudge ==
    /\ ~Exited
    /\ reader_pc = "nudge"
    /\ IF SerialFails
         THEN /\ reader_pc' = "dead"
              /\ tx' = Append(tx, Write("TRAIN:ON", "reader", FALSE))
              /\ UNCHANGED last_tx_old
         ELSE /\ reader_pc' = "loop"
              /\ tx' = Append(tx, Write("TRAIN:ON", "reader", TRUE))
              /\ last_tx_old' = FALSE
    /\ UNCHANGED << envVars, ser_open, got_any, enqueued, qrecs, keyq,
                    mainVars >>

\* What readline() may return: nothing yet, or the device's next line.
Readable ==
    {EmptyLine} \cup (IF nlines < MaxLines THEN LinesAt(nlines + 1) ELSE {})

ReaderRead ==
    /\ \E raw \in Readable : ReaderLoop(raw)
    /\ UNCHANGED heard

\* ------------------------------------------------ start_key_reader.run()
\* Mutant: the key thread empties the pending slot itself.
KeyRun_TouchesSlot(ch) ==
    /\ ~Exited
    /\ nkeys' = nkeys + 1
    /\ keyq' = Put(keyq, Lower(ch))
    /\ rec_current' = None
    /\ UNCHANGED << min_conf, link, nlines, heard, call, ser_open, tx,
                    readerVars, qrecs, main_pc, rows, rec, saved,
                    last_seen_old, saves, consumed, keyed >>

\* q.put(ch.lower())
KeyRun(ch) ==
    /\ ~Exited
    /\ nkeys' = nkeys + 1
    /\ keyq' = Put(keyq, Lower(ch))
    /\ UNCHANGED << min_conf, link, nlines, heard, call, ser_open, tx,
                    readerVars, qrecs, mainVars >>

KeyPress ==
    /\ nkeys < MaxKeys
    /\ \E ch \in KeyPresses : KeyRun(ch)

\* ------------------------------------------------------- the consumer loop
\* Mutant: a qualifying record waits behind the pending one.
NextPending_KeepsOld(cur, r, mc) ==
    IF Qualifies(r, mc) /\ cur = None THEN r ELSE cur

\* Mutant: every record takes the slot, whatever its confidence.
NextPending_Always(cur, r, mc) == r

\* if conf >= args.min_conf: rec_current = rec
NextPending(cur, r, mc) == IF Qualifies(r, mc) THEN r ELSE cur

\* rec = qrecs.get(timeout=0.25) ... except queue.Empty: pass
ConsumerGetRec ==
    /\ main_pc = "get_rec"
    /\ main_pc' = "get_key"
    /\ IF qrecs # << >>
         THEN /\ rec' = Head(qrecs)
              /\ qrecs' = Tail(qrecs)
              /\ last_seen_old' = FALSE
              /\ rec_current' = NextPending(rec_current, Head(qrecs), min_conf)
              /\ consumed' = Append(consumed, Head(qrecs))
         ELSE UNCHANGED << rec, qrecs, last_seen_old, rec_current, consumed >>
    /\ UNCHANGED << envVars, ser_open, tx, readerVars, keyq, rows, saved,
                    saves, keyed >>

\* if (time.time() - last_seen) > 2.0: the "(no data)" hint is written
NoDataHint(old) == old

\* Mutant: the labels are swapped.
LabelOf_Swapped(key) == IF key = "s" THEN 1 ELSE 0

\* lab = 1 if key=="f" else 0
LabelOf(key) == IF key = "f" THEN 1 ELSE 0

\* if rec_current: a dict with its seven keys is truthy, None is not
Pending(cur) == cur # None

\* rows.append(Sample(...)) when a candidate is pending
RowsAfterKey(rs, cur, key) ==
    IF key \in {"f", "s"} /\ Pending(cur)
      THEN Append(rs, Sample(cur, LabelOf(key)))
      ELSE rs

\* Mutant: the slot is not cleared after a label.
SlotAfterKey_Keeps(cur, key) == cur

\* rec_current = None after a label
SlotAfterKey(cur, key) ==
    IF key \in {"f", "s"} /\ Pending(cur) THEN None ELSE cur

\* Mutant: 'q' goes straight to the save, past the finally block.
PcAfterKey_SkipsTeardown(key) == IF key = "q" THEN "save" ELSE "get_rec"

\* Mutant: 'q' does not break out of the loop.
PcAfterKey_IgnoresQuit(key) == "get_rec"

\* elif key == "q": break
PcAfterKey(key) == IF key = "q" THEN "finally_write" ELSE "get_rec"

\* key = keyq.get_nowait() (or ""), the f/s/q branches and the no-data hint
ConsumerGetKey ==
    /\ main_pc = "get_key"
    /\ LET key == IF keyq # << >> THEN Head(keyq) ELSE ""
       IN /\ keyq' = IF keyq # << >> THEN Tail(keyq) ELSE keyq
          /\ rows' = RowsAfterKey(rows, rec_current, key)
          /\ rec_current' = SlotAfterKey(rec_current, key)
          /\ saved' = IF key \in {"f", "s"} /\ Pending(rec_current)
                        THEN saved + 1 ELSE saved
          /\ keyed' = IF key \in {"f", "s"} THEN keyed + 1 ELSE keyed
          /\ main_pc' = PcAfterKey(key)
    /\ UNCHANGED << envVars, ser_open, tx, readerVars, qrecs, last_seen_old, rec,
                    saves, consumed >>

\* finally: try: ser.write(b"TRAIN:OFF\n") except: pass
FinallyWrite ==
    /\ main_pc = "finally_write"
    /\ main_pc' = "finally_close"
    /\ tx' = Append(tx, Write("TRAIN:OFF", "main", ~SerialFails))
    /\ UNCHANGED << envVars, ser_open, readerVars, qrecs, keyq, rows,
                    last_seen_old, rec, rec_current, saved, saves,
                    consumed, keyed >>

\* Where control goes after ser.close(): a close that raises leaves the
\* finally block, and capture_mode, with the exception.
AfterClose(failed) == IF failed THEN "raised" ELSE "save"

\* ser.close(): on a lost link the close itself may raise.
FinallyClose ==
    /\ main_pc = "finally_close"
    /\ \E failed \in (IF link = "lost" THEN BOOLEAN ELSE {FALSE}) :
          /\ main_pc' = AfterClose(failed)
          /\ ser_open' = failed
    /\ UNCHANGED << envVars, tx, readerVars, qrecs, keyq, rows, last_seen_old,
                    rec, rec_current, saved, saves, consumed, keyed >>

\* if args.out: save_csv(args.out, rows)
SaveCsv ==
    /\ main_pc = "save"
    /\ main_pc' = "done"
    /\ saves' = Append(saves, rows)
    /\ UNCHANGED << envVars, ser_open, tx, readerVars, qrecs, keyq, rows,
                    last_seen_old, rec, rec_current, saved, consumed,
                    keyed >>

Next ==
    \/ TxTimeout
    \/ SeenTimeout
    \/ LoseLink
    \/ ReaderStart
    \/ ReaderRead
    \/ ReaderNudge
    \/ KeyPress
    \/ ConsumerGetRec
    \/ ConsumerGetKey
    \/ FinallyWrite
    \/ FinallyClose
    \/ SaveCsv

Spec == Init /\ [][Next]_vars

\* ------------------------------------------ the session, lines remembered
\* The read loop as in ReaderRead, with every non-empty line read kept in
\* heard.
ReaderReadHeard ==
    \E raw \in Readable :
        /\ ReaderLoop(raw)
        /\ heard' = IF nlines' > nlines THEN Append(heard, raw) ELSE heard

NextHeard ==
    \/ TxTimeout
    \/ SeenTimeout
    \/ LoseLink
    \/ ReaderStart
    \/ ReaderReadHeard
    \/ ReaderNudge
    \/ KeyPress
    \/ ConsumerGetRec
    \/ ConsumerGetKey
    \/ FinallyWrite
    \/ FinallyClose
    \/ SaveCsv

SpecHeard == Init /\ [][NextHeard]_vars

\* ------------------------------------------------ the end-to-end session
\* Five structured lines, the keys f, s, f, q, and --min-conf 0.
E2ELines ==
    << StructuredLine(1, ReportedReading), StructuredLine(2, ProxyReading),
       StructuredLine(3, NoisyReading), StructuredLine(4, ReportedReading),
       StructuredLine(5, ProxyReading) >>

E2EKeys == << "f", "s", "f", "q" >>

InitE2E ==
    /\ min_conf = 0
    /\ InitSession
    /\ call = NoCall

ReaderReadE2E ==
    /\ \E raw \in {EmptyLine} \cup (IF nlines < Len(E2ELines)
                                      THEN {E2ELines[nlines + 1]} ELSE {}) :
          ReaderLoop(raw)
    /\ UNCHANGED heard

KeyPressE2E ==
    /\ nkeys < Len(E2EKeys)
    /\ KeyRun(E2EKeys[nkeys + 1])

NextE2E ==
    \/ TxTimeout
    \/ SeenTimeout
    \/ ReaderStart
    \/ ReaderReadE2E
    \/ ReaderNudge
    \/ KeyPressE2E
    \/ ConsumerGetRec
    \/ ConsumerGetKey
    \/ FinallyWrite
    \/ FinallyClose
    \/ SaveCsv

SpecE2E == InitE2E /\ [][NextE2E]_vars

\* ------------------------------------------------------------- scheduling
\* Every thread that can run does run: the main thread and the reader are
\* scheduled, and time passes.  Nothing makes the operator press a key or
\* the cable come loose.
FairSpec ==
    /\ Spec
    /\ WF_vars(ConsumerGetRec)
    /\ WF_vars(ConsumerGetKey)
    /\ WF_vars(FinallyWrite)
    /\ WF_vars(FinallyClose)
    /\ WF_vars(SaveCsv)
    /\ WF_vars(ReaderStart)
    /\ WF_vars(ReaderRead)
    /\ WF_vars(ReaderNudge)
    /\ WF_vars(TxTimeout)
    /\ WF_vars(SeenTimeout)

\* ------------------------------------------------ open_port_with_retries
\* The variables of the capture session, which the functions called outside
\* it leave alone.
sessionVars ==
    << min_conf, link, ser_open, tx, nlines, nkeys, reader_pc, got_any,
       last_tx_old, qrecs, keyq, main_pc, rows, rec, rec_current, saved,
       last_seen_old, saves, consumed, enqueued, keyed, heard >>

\* No session is running: capture_mode has not reached its loop.
NoSession ==
    /\ min_conf = 0
    /\ InitSession

MaxTries == 6
Delays == {0, 1}

\* Mutant: range(1, tries+2)
LoopPc_OneMore(i, tries) == IF i <= tries + 1 THEN "try" ELSE "raise"

\* for i in range(1, tries+1): ... ; raise last_err or RuntimeError(...)
LoopPc(i, tries) == IF i <= tries THEN "try" ELSE "raise"

\* The call open_port_with_retries(port, baud, tries, delay) at its entry:
\* opens counts the serial.Serial(...) calls, log holds the i of each
\* "[open retry i/tries]" line, slept is the time spent in time.sleep(delay).
OpenCall(tries, delay) ==
    [fn |-> "open", tries |-> tries, delay |-> delay, i |-> 1,
     pc |-> LoopPc(1, tries), opens |-> 0, log |-> << >>, slept |-> 0,
     last_err |-> FALSE, result |-> "none"]

InitOpen ==
    /\ NoSession
    /\ call \in {OpenCall(t, d) : t \in 0..MaxTries, d \in Delays}

\* ser = serial.Serial(port, baud, timeout=0.15) ... return ser, or
\* except serial.SerialException as e: last_err = e
OpenTry ==
    /\ call.fn = "open"
    /\ call.pc = "try"
    /\ \E ok \in BOOLEAN :
          call' = IF ok
                    THEN [call EXCEPT !.opens = @ + 1, !.pc = "returned",
                                      !.result = "ser"]
                    ELSE [call EXCEPT !.opens = @ + 1, !.pc = "log",
                                      !.last_err = TRUE]
    /\ UNCHANGED sessionVars

\* print(f"[open retry {i}/{tries}] {e}")
OpenLog ==
    /\ call.fn = "open"
    /\ call.pc = "log"
    /\ call' = [call EXCEPT !.log = Append(@, call.i), !.pc = "sleep"]
    /\ UNCHANGED sessionVars

\* time.sleep(delay), and the next round of the loop
OpenSleep ==
    /\ call.fn = "open"
    /\ call.pc = "sleep"
    /\ call' = [call EXCEPT !.slept = @ + call.delay, !.i = @ + 1,
                            !.pc = LoopPc(call.i + 1, call.tries)]
    /\ UNCHANGED sessionVars

\* raise last_err or RuntimeError("Failed to open port")
OpenRaise ==
    /\ call.fn = "open"
    /\ call.pc = "raise"
    /\ call' = [call EXCEPT !.pc = "raised",
                            !.result = IF call.last_err
                                         THEN "SerialException"
                                         ELSE "RuntimeError"]
    /\ UNCHANGED sessionVars

NextOpen ==
    \/ OpenTry
    \/ OpenLog
    \/ OpenSleep
    \/ OpenRaise

SpecOpen == InitOpen /\ [][NextOpen]_vars

\* ------------------------------------------------------ parsing one line
MaxParts == 8

\* The k-th part of a comma-separated line, numeric or not.
PartAt(k, ok) == IF ok THEN Num(10 + k) ELSE Bad

\* The comma-separated lines of up to MaxParts parts, any of them not a
\* number (split(",") yields at least one part).
CsvLines ==
    UNION { { CsvLine([k \in 1..n |-> PartAt(k, k \in good)]) :
                good \in SUBSET (1..n) } : n \in 1..MaxParts }

\* The lines HUMAN_RE matches: a [\d.]+ capture may be no number ("1.2.3"),
\* the \d+ captures F and S always are.
HumanLines ==
    { HumanLine(PartAt(1, 1 \in good), PartAt(2, 2 \in good),
                PartAt(3, 3 \in good), PartAt(4, 4 \in good),
                PartAt(5, TRUE), PartAt(6, TRUE)) :
        good \in SUBSET (1..4) }

\* rec = parse_device_csv_line(raw) or parse_human_line(raw), at its entry
ParseCall(line) ==
    [fn |-> "parse", line |-> line, pc |-> "csv", csv |-> None,
     human |-> None, rec |-> None]

InitParse ==
    /\ NoSession
    /\ call \in {ParseCall(l) : l \in CsvLines \cup HumanLines \cup {NoiseLine}}

\* parse_device_csv_line(raw); a record is truthy and ends the `or`
ParseCsv ==
    /\ call.fn = "parse"
    /\ call.pc = "csv"
    /\ call' = [call EXCEPT
                  !.csv = parse_device_csv_line(call.line),
                  !.rec = parse_device_csv_line(call.line),
                  !.pc = IF parse_device_csv_line(call.line) # None
                           THEN "done" ELSE "human"]
    /\ UNCHANGED sessionVars

\* ... or parse_human_line(raw)
ParseHuman ==
    /\ call.fn = "parse"
    /\ call.pc = "human"
    /\ call' = [call EXCEPT
                  !.human = parse_human_line(call.line),
                  !.rec = parse_human_line(call.line),
                  !.pc = "done"]
    /\ UNCHANGED sessionVars

NextParse ==
    \/ ParseCsv
    \/ ParseHuman

SpecParse == InitParse /\ [][NextParse]_vars

\* ------------------------------------------------------------- scale_echo
MaxEcho == 4
Echoes == 0..MaxEcho

\* A fraction n/d; the model never divides.
Frac(n, d) == [n |-> n, d |-> d]

\* Mutant: only the lower clamp.
Clamp01_LowOnly(n, d) == IF n < 0 THEN 0 ELSE n

\* x = 0.0 if x < 0 else (1.0 if x > 1 else x), for x = n/d with d > 0;
\* the numerator over d
Clamp01(n, d) == IF n < 0 THEN 0 ELSE IF n > d THEN d ELSE n

\* scale_echo(echo_us, fa, sa), as the fraction it returns; with span = 0
\* the division would raise, which is the fraction's d = 0
scale_echo(echo_us, fa, sa) ==
    LET sa1 == IF fa = sa THEN fa + 1 ELSE sa
        lo == IF fa < sa1 THEN fa ELSE sa1
        hi == IF fa < sa1 THEN sa1 ELSE fa
        span == hi - lo
        x == Clamp01(echo_us - lo, span)
    IN IF fa < sa1 THEN Frac(span - x, span) ELSE Frac(x, span)

ScaleCall(echo_us, fa, sa) ==
    [fn |-> "scale", echo_us |-> echo_us, fa |-> fa, sa |-> sa,
     pc |-> "call", x |-> Frac(0, 1)]

InitScale ==
    /\ NoSession
    /\ call \in {ScaleCall(e, fa, sa) : e \in Echoes, fa \in Echoes,
                                        sa \in Echoes}

ScaleEcho ==
    /\ call.fn = "scale"
    /\ call.pc = "call"
    /\ call' = [call EXCEPT !.pc = "ret",
                            !.x = scale_echo(call.echo_us, call.fa, call.sa)]
    /\ UNCHANGED sessionVars

NextScale == ScaleEcho

SpecScale == InitScale /\ [][NextScale]_vars

\* --------------------------------------------- train_from_csv, emit_W_line
MaxRows == 3

\* The labels of the rows load_csv returns; the echoes and anchors decide
\* nothing in train_from_csv before the solver.
LabelLists == UNION {[1..n -> {0, 1}] : n \in 0..MaxRows}

\* Weights and biases the solver may return, in units of 10^-7: none lies
\* half-way between two renderings of six decimals.
Weights == {-12000004, -4, 13, 25000017}

\* f"{v:.6f}": the sign and the digits, as a count of 10^-6, of v rounded
\* to six decimals; -0.0000004 renders as -0.000000.
Fmt6(v) ==
    [neg |-> v < 0,
     micro |-> ((IF v < 0 THEN -v ELSE v) + 5) \div 10]

\* Mutant: the bias is left out.
emit_W_line_NoBias(w_fmed, b) ==
    [prefix |-> "W:",
     fields |-> [k \in 1..10 |-> IF k = 1 THEN Fmt6(w_fmed) ELSE Fmt6(0)]]

\* weights = [0.0]*10; weights[0] = w_fmed;
\* "W:" + ",".join(f"{v:.6f}" for v in weights) + "," + f"{b:.6f}"
emit_W_line(w_fmed, b) ==
    [prefix |-> "W:",
     fields |-> [k \in 1..10 |-> IF k = 1 THEN Fmt6(w_fmed) ELSE Fmt6(0)]
                  \o << Fmt6(b) >>]

\* A line printed that is not the weight line.
Msg(text) == [prefix |-> "", text |-> text]

\* Mutant: any rows at all will do.
BothClasses_Any(labels) == Len(labels) >= 1

\* not (len(set(y.tolist())) < 2)
BothClasses(labels) ==
    Cardinality({labels[i] : i \in 1..Len(labels)}) >= 2

\* train_from_csv(args) after load_csv: fits counts the calls of
\* fit_logistic_1d, out holds the lines printed from line 324 on.
TrainCall(labels) ==
    [fn |-> "train", labels |-> labels, pc |-> "rows", fits |-> 0,
     w |-> 0, b |-> 0, out |-> << >>]

InitTrain ==
    /\ NoSession
    /\ call \in {TrainCall(ls) : ls \in LabelLists}

\* if not rows: print("No rows to train."); return
TrainCheckRows ==
    /\ call.fn = "train"
    /\ call.pc = "rows"
    /\ call' = IF call.labels = << >>
                 THEN [call EXCEPT !.pc = "returned",
                                   !.out = Append(@, Msg("No rows to train."))]
                 ELSE [call EXCEPT !.pc = "classes"]
    /\ UNCHANGED sessionVars

\* if len(set(y.tolist())) < 2: print("Need both classes."); return
TrainCheckClasses ==
    /\ call.fn = "train"
    /\ call.pc = "classes"
    /\ call' = IF BothClasses(call.labels)
                 THEN [call EXCEPT !.pc = "fit"]
                 ELSE [call EXCEPT !.pc = "returned",
                                   !.out = Append(@, Msg("Need both classes."))]
    /\ UNCHANGED sessionVars

\* w,b = fit_logistic_1d(X,y): whatever the solver returns
TrainFit ==
    /\ call.fn = "train"
    /\ call.pc = "fit"
    /\ \E w \in Weights, b \in Weights :
          call' = [call EXCEPT !.pc = "emit", !.fits = @ + 1,
                               !.w = w, !.b = b]
    /\ UNCHANGED sessionVars

\* print(emit_W_line(w,b))
TrainEmit ==
    /\ call.fn = "train"
    /\ call.pc = "emit"
    /\ call' = [call EXCEPT !.pc = "returned",
                            !.out = Append(@, emit_W_line(call.w, call.b))]
    /\ UNCHANGED sessionVars

NextTrain ==
    \/ TrainCheckRows
    \/ TrainCheckClasses
    \/ TrainFit
    \/ TrainEmit

SpecTrain == InitTrain /\ [][NextTrain]_vars

\* ================================================================ claims
Streaming == main_pc \in {"get_rec", "get_key"}

\* The consumer loop takes a record from qrecs in this step.
TakesRecord == main_pc = "get_rec" /\ main_pc' = "get_key" /\ qrecs # << >>

\* The consumer loop takes the key k from keyq in this step.
TakesKey(k) ==
    main_pc = "get_key" /\ main_pc' # "get_key" /\ keyq # << >> /\ Head(keyq) = k

Last(seq) == seq[Len(seq)]

IsRecord(r) ==
    DOMAIN r = {"ts_ms", "echo_us", "mad_us", "fresh_pct", "conf_pct",
                "fresh_anchor", "spoil_anchor"}

\* The positions of the qualifying records among those taken so far.
QualIdx == {i \in 1..Len(consumed) : Qualifies(consumed[i], min_conf)}

\* The most recent qualifying record taken from qrecs, if any.
LastQual ==
    IF QualIdx = {} THEN None
    ELSE consumed[CHOOSE i \in QualIdx : \A j \in QualIdx : j <= i]

\* The TRAIN:OFF write of the teardown has been attempted.
OffAttempted == \E i \in 1..Len(tx) : tx[i].cmd = "TRAIN:OFF" /\ tx[i].by = "main"

\* The TRAIN:OFF write of the teardown has reached the device.
OffWritten ==
    \E i \in 1..Len(tx) : tx[i].cmd = "TRAIN:OFF" /\ tx[i].by = "main" /\ tx[i].ok

\* The samples come from lines in arrival order, each line at most once.
InArrivalOrder(rs) ==
    \A i, j \in 1..Len(rs) : i < j => rs[i].echo_us < rs[j].echo_us

\* C1: an 'f' or 's' key taken while a candidate is pending appends exactly
\* one sample with the candidate's echo and anchors and the label 1 for 'f',
\* 0 for 's', and empties the slot; taken while the slot is empty it leaves
\* the rows and the slot as they are.
C1_LabelKey ==
    [][ \A k \in {"f", "s"} :
          TakesKey(k) =>
            IF rec_current # None
              THEN /\ rows' = Append(rows,
                                [echo_us |-> rec_current.echo_us,
                                 label |-> IF k = "f" THEN 1 ELSE 0,
                                 fresh_anchor |-> rec_current.fresh_anchor,
                                 spoil_anchor |-> rec_current.spoil_anchor])
                   /\ rec_current' = None
              ELSE /\ rows' = rows
                   /\ rec_current' = rec_current ]_vars

\* Two keys were taken, neither a 'q', and one sample was labelled 0: an 's'
\* labelled a pending candidate and the other press found the slot empty.
C1_Witness ==
    /\ nkeys = 2
    /\ keyq = << >>
    /\ main_pc = "get_rec"
    /\ Len(rows) = 1
    /\ rows[1].label = 0
    /\ rec_current = None

\* C2: the slot holds nothing or exactly one record; taking a qualifying
\* record while the slot is occupied replaces the old record and queues
\* nothing, and no record older than the newest qualifying one is labelled
\* afterwards.
C2_SingleSlot ==
    /\ [](rec_current = None \/ IsRecord(rec_current))
    /\ [][ (TakesRecord /\ rec_current # None
              /\ Qualifies(Head(qrecs), min_conf))
           => /\ rec_current' = Head(qrecs)
              /\ rows' = rows
              /\ qrecs' = Tail(qrecs)
              /\ keyq' = keyq ]_vars
    /\ [][ rows' # rows =>
             \A i \in QualIdx :
                (\E j \in QualIdx : i < j)
                  => Last(rows').echo_us # consumed[i].echo_us ]_vars

\* Two qualifying records were taken, the first was never labelled and the
\* second was.
C2_Witness ==
    /\ Len(consumed) = 2
    /\ QualIdx = {1, 2}
    /\ Len(rows) = 1
    /\ rows[1].echo_us = consumed[2].echo_us

\* C3 (as claimed): the session of five structured lines and the keys
\* f, s, f, q with --min-conf 0 ends with exactly three samples, in arrival
\* order, in every interleaving.
C3_ExactlyThree ==
    (main_pc = "done" /\ nlines = Len(E2ELines))
      => (Len(rows) = 3 /\ InArrivalOrder(rows) /\ saves = << rows >>)

\* C3 (amended): that session ends with at most three samples, in arrival
\* order, each line labelled at most once; with three samples the labels are
\* 1, 0, 1, one for each of the three presses.
C3_AtMostThree ==
    (main_pc = "done" /\ nlines = Len(E2ELines))
      => /\ saves = << rows >>
         /\ Len(rows) <= 3
         /\ InArrivalOrder(rows)
         /\ \A i \in 1..Len(rows) :
               \E n \in 1..Len(E2ELines) : rows[i].echo_us = EchoAt(n)
         /\ Len(rows) = 3
              => << rows[1].label, rows[2].label, rows[3].label >>
                   = << 1, 0, 1 >>

C3_Witness ==
    /\ main_pc = "done"
    /\ nlines = Len(E2ELines)
    /\ Len(rows) = 3
    /\ saves = << rows >>

\* C4 (as claimed): once the reader has died of a lost connection, the
\* consumer loop leaves Streaming, with or without a 'q'.
C4_AbortsOnFatal ==
    (reader_pc = "dead" /\ link = "lost") ~> ~Streaming

\* C5 (as claimed): no write on the connection is issued by the reader.
C5_NoReaderWrite ==
    \A i \in 1..Len(tx) : tx[i].by # "reader"

\* C6 (as claimed): the teardown never raises; the connection is closed
\* after it even if the TRAIN:OFF write failed, and the rows are handed to
\* the store even if the write or the close failed.
C6_TeardownNeverRaises ==
    /\ main_pc # "raised"
    /\ main_pc \in {"save", "done", "raised"} => ~ser_open
    /\ Exited => saves = << rows >>

\* C7 (as claimed): when capture_mode returns after 'q', TRAIN:OFF has been
\* written, the connection is closed and the store holds exactly the rows.
C7_OffWritten ==
    main_pc = "done" => (OffWritten /\ ~ser_open /\ saves = << rows >>)

\* C7 (amended): when capture_mode returns after 'q', the TRAIN:OFF write
\* has been attempted, and has succeeded unless the link was lost; the
\* connection is closed and the store holds exactly the rows, in order; the
\* write comes before the close and the close before the store flush.
C7_OffAttempted ==
    /\ main_pc \in {"finally_close", "save", "done"} => OffAttempted
    /\ (main_pc \in {"finally_close", "save", "done"} /\ link = "up")
         => OffWritten
    /\ main_pc \in {"save", "done"} => ~ser_open
    /\ main_pc = "done" => saves = << rows >>
    /\ main_pc # "done" => saves = << >>

C7_Witness ==
    /\ main_pc = "done"
    /\ Len(rows) = 1
    /\ saves = << rows >>
    /\ Last(tx) = Write("TRAIN:OFF", "main", TRUE)

C9_LabelsNewest ==
    [][ rows' # rows => Last(rows').echo_us = rec.echo_us ]_vars

\* C9 (amended): an 'f' or 's' never labels a record older than the most
\* recent qualifying record taken from qrecs: the pending candidate is that
\* record, and a newer record below the threshold does not discard it.
C9_LabelsNewestQualifying ==
    /\ [](rec_current # None => rec_current = LastQual)
    /\ [][ rows' # rows =>
             /\ Last(rows').echo_us = LastQual.echo_us
             /\ Last(rows').fresh_anchor = LastQual.fresh_anchor
             /\ Last(rows').spoil_anchor = LastQual.spoil_anchor ]_vars

\* A qualifying record and then one below the threshold were taken, and the
\* first one was labelled.
C9_Witness ==
    /\ Len(consumed) = 2
    /\ QualIdx = {1}
    /\ Len(rows) = 1
    /\ rows[1].echo_us = consumed[1].echo_us
    /\ rec = consumed[2]

\* C10: a record taken from qrecs overwrites the slot if and only if its
\* confidence, conf_pct when positive and max(0, (1 - mad/240) * 100)
\* otherwise, is at least min_conf; below the threshold the slot and the
\* rows stay as they are.
C10_Threshold ==
    [][ TakesRecord =>
          LET r == Head(qrecs)
              proxy240 == (240 - r.mad_us) * 100
              conf240 == IF r.conf_pct > 0 THEN 240 * r.conf_pct
                         ELSE IF proxy240 > 0 THEN proxy240 ELSE 0
          IN /\ rows' = rows
             /\ IF conf240 >= 240 * min_conf
                  THEN rec_current' = r
                  ELSE rec_current' = rec_current /\ rec_current' # r ]_vars

\* With --min-conf 50 a record of proxy confidence exactly 50 took the slot
\* and a later record of reported confidence 40 left it there.
C10_Witness ==
    /\ min_conf = 50
    /\ Len(consumed) = 2
    /\ consumed[1].conf_pct = 0 /\ consumed[1].mad_us = 120
    /\ consumed[2].conf_pct = 40
    /\ rec_current = consumed[1]
    /\ rows = << >>

\* p is an initial segment of q.
IsPrefix(p, q) == Len(p) <= Len(q) /\ p = SubSeq(q, 1, Len(p))

\* C11: the records are put on qrecs in the order their lines arrive and
\* taken in that order: the records taken are always the first of those
\* put, the rest being the queue itself, and the samples are in the arrival
\* order of their records.
C11_Fifo ==
    /\ IsPrefix(consumed, enqueued)
    /\ enqueued = consumed \o qrecs
    /\ \A i, j \in 1..Len(enqueued) :
          i < j => enqueued[i].echo_us < enqueued[j].echo_us
    /\ InArrivalOrder(rows)

\* Two records were put on qrecs, both were taken and both labelled, the
\* samples standing in the order of the records.
C11_Witness ==
    /\ Len(enqueued) = 2
    /\ consumed = enqueued
    /\ Len(rows) = 2
    /\ rows[1].echo_us = enqueued[1].echo_us
    /\ rows[2].echo_us = enqueued[2].echo_us

\* A step of reader(): its position, its flags or its writes change, or a
\* line is read.
ReaderStep ==
    \/ reader_pc' # reader_pc
    \/ got_any' # got_any
    \/ nlines' # nlines
    \/ enqueued' # enqueued
    \/ ReaderWrites' # ReaderWrites

\* A step of the key thread: a key is pressed.
KeyStep == nkeys' # nkeys

\* seq grows by at most one element at its end.
AppendsAtMostOne(seq, seqNext) ==
    /\ Len(seqNext) \in {Len(seq), Len(seq) + 1}
    /\ SubSeq(seqNext, 1, Len(seq)) = seq

\* C12: a step of reader() or of the key thread leaves the pending slot and
\* the rows as they are and only appends to its own queue; the slot changes
\* only in a step of the consumer loop.
C12_Frame ==
    /\ [][ (ReaderStep \/ KeyStep)
             => /\ rec_current' = rec_current
                /\ rows' = rows
                /\ main_pc' = main_pc ]_vars
    /\ [][ ReaderStep => (keyq' = keyq /\ AppendsAtMostOne(qrecs, qrecs')) ]_vars
    /\ [][ KeyStep
             => /\ qrecs' = qrecs
                /\ Len(keyq') = Len(keyq) + 1
                /\ AppendsAtMostOne(keyq, keyq') ]_vars
    /\ [][ rec_current' # rec_current
             => (Streaming /\ main_pc' # main_pc) ]_vars

\* With a candidate pending, the reader has put a further record on qrecs
\* and the key thread a key on keyq; nothing has been labelled.
C12_Witness ==
    /\ rec_current # None
    /\ qrecs # << >>
    /\ keyq # << >>
    /\ rows = << >>
    /\ Len(enqueued) = 2

NumericUpTo(line, n) == \A k \in 1..n : line.parts[k].ok

\* C14 (as claimed): parse_device_csv_line returns a record if and only if
\* the line has exactly 7 comma-separated parts, each of them a number.
C14_ExactlySeven ==
    call.pc # "csv"
      => (call.csv # None
            <=> /\ call.line.fmt = "csv"
                /\ Len(call.line.parts) = 7
                /\ NumericUpTo(call.line, 7))

\* C14 (amended): parse_device_csv_line returns a record if and only if the
\* line has at least 7 comma-separated parts and the first 7 are numbers;
\* the record holds those seven in the order of CSV_FIELDS and further
\* parts are ignored.  Otherwise it returns None, and the human-readable
\* format is tried next.
C14_AtLeastSeven ==
    /\ call.pc # "csv"
         => /\ call.csv # None
                 <=> /\ call.line.fmt = "csv"
                     /\ Len(call.line.parts) >= 7
                     /\ NumericUpTo(call.line, 7)
            /\ call.csv # None
                 => call.csv = [ts_ms |-> call.line.parts[1].v,
                                echo_us |-> call.line.parts[2].v,
                                mad_us |-> call.line.parts[3].v,
                                fresh_pct |-> call.line.parts[4].v,
                                conf_pct |-> call.line.parts[5].v,
                                fresh_anchor |-> call.line.parts[6].v,
                                spoil_anchor |-> call.line.parts[7].v]
            /\ call.csv = None => call.pc \in {"human", "done"}
            /\ call.csv # None => (call.pc = "done" /\ call.rec = call.csv)
    /\ (call.pc = "done" /\ call.csv = None) => call.rec = call.human

\* A line of eight parts, the eighth not a number, was parsed to a record.
C14_Witness ==
    /\ call.pc = "done"
    /\ call.line.fmt = "csv"
    /\ Len(call.line.parts) = 8
    /\ ~call.line.parts[8].ok
    /\ call.csv # None
    /\ call.rec = call.csv

\* The line matches one of the two formats.
Matches(raw) ==
    parse_device_csv_line(raw) # None \/ parse_human_line(raw) # None

\* The records of the matching lines among ls, in order.
RECURSIVE RecordsOf(_)
RecordsOf(ls) ==
    IF ls = << >> THEN << >>
    ELSE IF parse_device_csv_line(Head(ls)) # None
      THEN << parse_device_csv_line(Head(ls)) >> \o RecordsOf(Tail(ls))
    ELSE IF parse_human_line(Head(ls)) # None
      THEN << parse_human_line(Head(ls)) >> \o RecordsOf(Tail(ls))
    ELSE RecordsOf(Tail(ls))

\* C15: a line that matches neither format is dropped by reader(): the
\* step that reads it puts nothing on qrecs, writes nothing, leaves the
\* main thread alone and leaves the reader in its loop; and the records put
\* on qrecs are at all times those of the matching lines read, so a
\* well-formed line after a dropped one is still parsed and put.
C15_Discards ==
    /\ [](Len(heard) = nlines)
    /\ [](enqueued = RecordsOf(heard))
    /\ [][ (Len(heard') > Len(heard) /\ ~Matches(Last(heard')))
             => /\ qrecs' = qrecs
                /\ enqueued' = enqueued
                /\ reader_pc = "loop" /\ reader_pc' = "loop"
                /\ tx' = tx
                /\ main_pc' = main_pc
                /\ rows' = rows
                /\ rec_current' = rec_current ]_vars

\* Noise was read and dropped, then a human-readable line was read and its
\* record put on qrecs; the reader is still in its loop.
C15_Witness ==
    /\ Len(heard) = 2
    /\ heard[1] = NoiseLine
    /\ heard[2].fmt = "human"
    /\ Matches(heard[2])
    /\ Len(enqueued) = 1
    /\ reader_pc = "loop"

Min2(a, b) == IF a < b THEN a ELSE b
Max2(a, b) == IF a < b THEN b ELSE a

\* The reference of C16, as a fraction: the spoil anchor is moved to
\* fresh_anchor + 1 when the anchors are equal, x is (echo - min) over
\* (max - min) clamped to [0, 1], and 1 - x when the fresh anchor is the
\* smaller one.
RefScale(echo, fresh_anchor, spoil_anchor) ==
    LET s == IF spoil_anchor = fresh_anchor THEN fresh_anchor + 1
             ELSE spoil_anchor
        mn == Min2(fresh_anchor, s)
        mx == Max2(fresh_anchor, s)
        up == Max2(0, Min2(echo - mn, mx - mn))
    IN IF fresh_anchor < s THEN Frac((mx - mn) - up, mx - mn)
       ELSE Frac(up, mx - mn)

\* The fractions are the same number.
SameFrac(x, y) == x.n * y.d = y.n * x.d

\* C16: for all integer echo and anchors of the bounded set, scale_echo
\* returns the reference value; the divisor is never zero, the result lies
\* in [0, 1], and for a < b scale_echo(a, a, b) = 1 and scale_echo(b, a, b)
\* = 0.
C16_ScaleEcho ==
    call.pc = "ret"
      => /\ call.x.d > 0
         /\ RefScale(call.echo_us, call.fa, call.sa).d > 0
         /\ SameFrac(call.x, RefScale(call.echo_us, call.fa, call.sa))
         /\ 0 <= call.x.n /\ call.x.n <= call.x.d
         /\ (call.fa < call.sa /\ call.echo_us = call.fa)
              => call.x.n = call.x.d
         /\ (call.fa < call.sa /\ call.echo_us = call.sa)
              => call.x.n = 0

\* With the fresh anchor the smaller one, an echo a quarter of the way from
\* it to the spoil anchor is scaled to 3/4.
C16_Witness ==
    /\ call.pc = "ret"
    /\ call.fa = 0
    /\ call.sa = 4
    /\ call.echo_us = 1
    /\ call.x = Frac(3, 4)

\* The weight lines printed so far.
WLines == {i \in 1..Len(call.out) : call.out[i].prefix = "W:"}

\* The loaded rows hold at most one label class.
OneClass == \A i, j \in 1..Len(call.labels) : call.labels[i] = call.labels[j]

\* C17: with rows of one label class only, or no rows, training reports it
\* and returns: the solver is never called and no weight line is printed.
C17_NeedBothClasses ==
    /\ OneClass => (call.fits = 0 /\ WLines = {} /\ call.pc # "fit"
                      /\ call.pc # "emit")
    /\ (OneClass /\ call.pc = "returned")
         => call.out \in { << Msg("No rows to train.") >>,
                           << Msg("Need both classes.") >> }
    /\ (~OneClass /\ call.pc = "returned")
         => (call.fits = 1 /\ Cardinality(WLines) = 1)

\* Two rows, both labelled fresh: training returned after the report.
C17_Witness ==
    /\ call.labels = << 1, 1 >>
    /\ call.pc = "returned"
    /\ call.out = << Msg("Need both classes.") >>
    /\ call.fits = 0

\* The field is v to six decimals: a count of 10^-6 within half of 10^-6 of
\* v and of v's sign.
Renders(field, v) ==
    /\ field.micro >= 0
    /\ field.neg = (v < 0)
    /\ LET shown == IF field.neg THEN -10 * field.micro ELSE 10 * field.micro
       IN shown - v <= 5 /\ v - shown <= 5

\* C18: the weight line is "W:" and exactly 11 numeric fields: field 0 is
\* the weight w, fields 1 to 9 are zero and field 10 is the bias b, each to
\* six decimals.
C18_WLine ==
    \A i \in WLines :
        /\ call.out[i].prefix = "W:"
        /\ Len(call.out[i].fields) = 11
        /\ Renders(call.out[i].fields[1], call.w)
        /\ \A k \in 2..10 : call.out[i].fields[k] = [neg |-> FALSE, micro |-> 0]
        /\ Renders(call.out[i].fields[11], call.b)

\* The line of w = 2.5000017 and b = -0.0000004 was printed:
\* W:2.500002,0.000000,...,0.000000,-0.000000
C18_Witness ==
    /\ call.pc = "returned"
    /\ call.w = 25000017
    /\ call.b = -4
    /\ WLines # {}
    /\ Last(call.out).fields[1] = [neg |-> FALSE, micro |-> 2500002]
    /\ Last(call.out).fields[11] = [neg |-> TRUE, micro |-> 0]

\* C19 (as claimed): no TRAIN:ON reaches the device after the TRAIN:OFF of
\* the teardown, so that the last command the device receives in a session
\* ended by 'q' is TRAIN:OFF.
C19_OffIsLast ==
    \A i, j \in 1..Len(tx) :
        (i < j /\ tx[i] = Write("TRAIN:OFF", "main", TRUE))
          => ~(tx[j].cmd = "TRAIN:ON" /\ tx[j].ok)

\* The samples whose source is the record r.
SamplesOf(r) == {k \in 1..Len(rows) : rows[k].echo_us = r.echo_us}

\* C20: every record taken is the source of at most one sample, and every
\* sample has a qualifying record taken as its source; there are never more
\* samples than 'f' and 's' keys taken, nor than qualifying records taken;
\* the rows change only by one sample appended at the end.
C20_Counts ==
    /\ [](\A i \in 1..Len(consumed) : Cardinality(SamplesOf(consumed[i])) <= 1)
    /\ [](\A k \in 1..Len(rows) :
            \E i \in QualIdx : rows[k].echo_us = consumed[i].echo_us)
    /\ [](Len(rows) <= keyed)
    /\ [](Len(rows) <= Cardinality(QualIdx))
    /\ [][ AppendsAtMostOne(rows, rows') ]_vars

\* Two qualifying records and two 'f'/'s' keys were taken and one sample
\* was labelled: one record was overwritten, one press found the slot
\* empty.
C20_Witness ==
    /\ Len(rows) = 1
    /\ keyed = 2
    /\ Cardinality(QualIdx) = 2
    /\ rec_current = None

\* A 'q' waits in keyq while the consumer loop runs.
QuitQueued == Streaming /\ \E i \in 1..Len(keyq) : keyq[i] = "q"

\* C21: with every thread scheduled, a 'q' waiting in keyq behind other
\* keys is taken by the consumer loop, which then leaves the loop and ends
\* the session, whether or not any line ever arrives and whether or not
\* the reader is still alive; the loop is left only by taking a 'q', so a
\* pass in which the no-data hint is due goes on to the next pass.
C21_QuitEnds ==
    /\ QuitQueued ~> ~Streaming
    /\ QuitQueued ~> Exited
    /\ [][ (Streaming /\ ~Streaming') => TakesKey("q") ]_vars
    /\ [][ (main_pc = "get_key" /\ NoDataHint(last_seen_old)
              /\ ~TakesKey("q"))
             => main_pc' \in {"get_key", "get_rec"} ]_vars

\* No line ever arrived and the reader has died of a lost link; an 's' and
\* then a 'q' were taken and the session has ended.
C21_Witness ==
    /\ main_pc = "done"
    /\ nlines = 0
    /\ reader_pc = "dead"
    /\ last_seen_old
    /\ nkeys = 2
    /\ keyed = 1
    /\ keyq = << >>

====
